---- MODULE Spec2Model ----
(***************************************************************************)
(* The recent-transactions feed controller (LatestTxCard) and its helpers  *)
(* generateStartEndRange and getRecentTransactions, and the owned-object   *)
(* loader (OwnedObject).                                                   *)
(*                                                                         *)
(* The two useQuery hooks are modelled by what @tanstack/react-query v4    *)
(* does for the options the component passes (the package name, the        *)
(* keepPreviousData option and a QueryStatus of exactly error | loading |  *)
(* success are those of v4):                                               *)
(*   - a query is one cache entry per key; an entry has at most one live   *)
(*     fetch; a fetch asked for while one is live returns the live one,    *)
(*     unless it is asked with cancelRefetch and the entry holds data, and *)
(*     then the live fetch is cancelled silently (the transport call is    *)
(*     not aborted, its answer is dropped) and a new one is started;       *)
(*   - the observer's refetch() asks with cancelRefetch, the interval      *)
(*     timer and a key change do not;                                      *)
(*   - keepPreviousData shows the last successful result while the entry   *)
(*     of the new key has no data and is not in error;                     *)
(*   - a failed attempt may be retried by the retryer before the entry     *)
(*     settles in error (whether and how often is client configuration);   *)
(*   - refetches on window focus and on reconnect are left out: the window *)
(*     stays focused and online.                                           *)
(*                                                                         *)
(* OwnedObject is modelled with its props, its three useState values and   *)
(* the promise chains its effect has started: the effect has no cleanup,   *)
(* so a chain started for earlier props runs on after the props changed.   *)
(* A promise's callback runs right after the promise resolved, before any  *)
(* other event.  The rpc client is one and the same throughout.            *)
(***************************************************************************)
EXTENDS Integers, Sequences, FiniteSets, Bags, TLC

\* ---------------------------------------------------------------- bounds
\* counts the transport may answer: 0 .. MaxCount
MaxCount == 2
\* the small page size on offer next to the default one
MaxTxPerPage == 1
\* page numbers the pagination control may hand to handlePageChange: 1 .. MaxPage
MaxPage == 2
\* queries the cache holds at once
MaxCache == 2
\* getTotalTransactionNumber calls of cancelled fetches on the wire at once
MaxCancelled == 1
\* inputs of the window calculation checked on its own
MaxCalcCount == 7
MaxCalcSize == 4
MaxCalcPage == 6
\* objects a listing answer of the owned-object loader holds at most
MaxObjects == 2
\* loads of the owned-object loader in flight at once
MaxLoads == 2

\* ------------------------------------------------------ program constants
NUMBER_OF_TX_PER_PAGE == 20
DEFAULT_PAGINATION_TYPE == "more button"
\* a count of several default pages, the last one partial, next to the small counts
ScenarioCount == 2 * NUMBER_OF_TX_PER_PAGE + 5

VARIABLES
    paginationtype,      \* prop
    paused,              \* useState(false)
    txPerPage,           \* useState(initialTxPerPage || NUMBER_OF_TX_PER_PAGE)
    pageIndex,           \* useState(parseInt(p) || 1)
    countQuery,          \* the ['transactions', 'count'] query
    queryCache,          \* the ['transactions', {total, txPerPage, pageIndex}] queries, by key
    previousQueryResult, \* what keepPreviousData holds: the result shown when the key last changed
    wire,                \* the transport calls issued and not yet answered (a bag)
    calc,                \* the window calculation checked on its own
    props,               \* OwnedObject: { id, byAddress }
    results,             \* OwnedObject: useState(DATATYPE_DEFAULT)
    isLoaded,            \* OwnedObject: useState(false)
    isFail,              \* OwnedObject: useState(false)
    loads                \* OwnedObject: the promise chains of the effect's runs, oldest first

ownedVars == <<props, results, isLoaded, isFail, loads>>

vars == <<paginationtype, paused, txPerPage, pageIndex, countQuery,
          queryCache, previousQueryResult, wire, calc, ownedVars>>

\* ------------------------------------------------------------ JS values
\* undefined, and a defined number n
Undefined == <<>>
Num(n) == <<n>>
\* !count
Falsy(v) == v = Undefined \/ v[1] = 0

Max(a, b) == IF a > b THEN a ELSE b
\* Math.ceil(a / b) for a >= 0, b > 0
Ceil(a, b) == (a + b - 1) \div b

RECURSIVE reverse(_)
reverse(s) == IF s = <<>> THEN <<>> ELSE Append(reverse(Tail(s)), Head(s))

\* ---------------------------------------------------- query string ?p=
Digits == <<"0", "1", "2", "3", "4", "5", "6", "7", "8", "9">>
IsDigit(ch) == \E i \in 1..10 : Digits[i] = ch
DigitVal(ch) == (CHOOSE i \in 1..10 : Digits[i] = ch) - 1

RECURSIVE digitsValue(_, _)
digitsValue(s, acc) ==
    IF s = <<>> \/ ~IsDigit(Head(s)) THEN acc
    ELSE digitsValue(Tail(s), acc * 10 + DigitVal(Head(s)))

\* parseInt(str, 10): an optional sign, then the leading digits; NaN (Undefined) without any
parseInt(str) ==
    LET neg  == str # <<>> /\ Head(str) = "-"
        rest == IF str # <<>> /\ Head(str) \in {"-", "+"} THEN Tail(str) ELSE str
    IN IF rest = <<>> \/ ~IsDigit(Head(rest)) THEN Undefined
       ELSE Num(IF neg THEN 0 - digitsValue(rest, 0) ELSE digitsValue(rest, 0))

\* searchParams.get('p'): null (Undefined) or a string
SearchParamP == {Undefined, <<"0">>, <<"-", "1">>, <<"x">>, <<"2", "x">>}

\* parseInt(searchParams.get('p') || '1', 10) || 1
initialPageIndex(p) ==
    LET n == parseInt(IF p = Undefined \/ p = <<>> THEN <<"1">> ELSE p)
    IN IF Falsy(n) THEN 1 ELSE n[1]

\* ------------------------------------------------- generateStartEndRange
\* (C14) the page number taken as zero-based
generateStartEndRange_zeroBased(txCount, txNum, pageNum) ==
    LET txPaged == IF pageNum # 0 /\ pageNum > 0 THEN pageNum ELSE 0
        endGatewayTxSeqNumber == txCount - txNum * txPaged
        startGatewayTxSeqNumber == Max(endGatewayTxSeqNumber - txNum, 0)
    IN [startGatewayTxSeqNumber |-> startGatewayTxSeqNumber,
        endGatewayTxSeqNumber |-> endGatewayTxSeqNumber]

generateStartEndRange(txCount, txNum, pageNum) ==
    LET txPaged == IF pageNum # 0 /\ pageNum > 0 THEN pageNum - 1 ELSE 0
        endGatewayTxSeqNumber == txCount - txNum * txPaged
        startGatewayTxSeqNumber == Max(endGatewayTxSeqNumber - txNum, 0)
    IN [startGatewayTxSeqNumber |-> startGatewayTxSeqNumber,
        endGatewayTxSeqNumber |-> endGatewayTxSeqNumber]

\* const maxTxPage = Math.ceil(count / txPerPage)
maxTxPage(count, perPage) == Ceil(count, perPage)
\* (C1, C2) the page index used as requested, without the clamp
pg_unclamped(count, perPage, index) == index
\* (C13) a page index beyond the last page brought back by one page only
pg_stepDown(count, perPage, index) ==
    IF index > maxTxPage(count, perPage) THEN index - 1 ELSE index

\* const pg = pageIndex > maxTxPage ? maxTxPage : pageIndex
pg(count, perPage, index) ==
    IF index > maxTxPage(count, perPage) THEN maxTxPage(count, perPage) ELSE index

\* ------------------------------------------------------ transport calls
Call(method, args) == [method |-> method, args |-> args]
CountCall == Call("getTotalTransactionNumber", <<>>)
RangeCall(start, end) == Call("getTransactionDigestsInRangeDeprecated", <<start, end>>)
HydrateCall(digests) == Call("getDataOnTxDigests", digests)

\* calls on the wire, each with the query it was issued for:
\* <<>> for the count query, <<key>> for the page query of key
RECURSIVE Sent(_, _)
Sent(calls, for) ==
    IF calls = <<>> THEN EmptyBag
    ELSE SetToBag({[call |-> Head(calls), for |-> for]}) (+) Sent(Tail(calls), for)
\* the calls are answered: off the wire w
Answered(w, calls, for) == w (-) Sent(calls, for)
\* the calls on the wire w issued for the query
OnWire(w, for) ==
    LET of == {c \in BagToSet(w) : c.for = for}
    IN IF of = {} THEN 0 ELSE BagCardinality([c \in of |-> w[c]])

\* the digests of the sequence numbers start .. end-1, ascending, as the transport returns them
RECURSIVE digestsInRange(_, _)
digestsInRange(start, end) ==
    IF start >= end THEN <<>> ELSE <<start>> \o digestsInRange(start + 1, end)

\* ------------------------------------------------- getRecentTransactions
\* (C18) the hydration asked for at once, next to the range request
getRecentTransactions_hydratesAtOnce(totalTx, txNum, pageNum) ==
    LET r == generateStartEndRange(totalTx, txNum, pageNum)
    IN IF r.endGatewayTxSeqNumber < 0
       THEN [stage |-> "thrown", rejection |-> "Invalid transaction number", calls |-> <<>>]
       ELSE [stage |-> "range", rejection |-> "",
             calls |-> <<RangeCall(r.startGatewayTxSeqNumber, r.endGatewayTxSeqNumber),
                         HydrateCall(reverse(digestsInRange(r.startGatewayTxSeqNumber,
                                                            r.endGatewayTxSeqNumber)))>>]

\* up to the first await: the window, the range check, the range request
getRecentTransactions(totalTx, txNum, pageNum) ==
    LET r == generateStartEndRange(totalTx, txNum, pageNum)
    IN IF r.endGatewayTxSeqNumber < 0
       THEN [stage |-> "thrown", rejection |-> "Invalid transaction number", calls |-> <<>>]
       ELSE [stage |-> "range", rejection |-> "",
             calls |-> <<RangeCall(r.startGatewayTxSeqNumber, r.endGatewayTxSeqNumber)>>]

\* (C11) Array.prototype.reverse on the transport's array itself: reversed in place
spreadReverse_inPlace(array) == [array |-> reverse(array), value |-> reverse(array)]

\* [...array].reverse(): the spread copies, reverse works on the copy in place and
\* returns it; array is what the caller's array holds afterwards
spreadReverse(array) == [array |-> array, value |-> reverse(array)]

\* after the range request resolved with transactionDigests: the hydration call
hydrationCall(transactionDigests) == HydrateCall(reverse(transactionDigests))

\* ------------------------------------------------------ transactionQuery
\* ['transactions', { total: countQuery.data, txPerPage, pageIndex }]
QueryKey(total, perPage, index) == [total |-> total, txPerPage |-> perPage, pageIndex |-> index]

\* the query function of the key's render, up to its first await
queryFn(key) ==
    IF Falsy(key.total)
    THEN [stage |-> "thrown", rejection |-> "No transactions found", calls |-> <<>>]
    ELSE getRecentTransactions(key.total[1], key.txPerPage,
                               pg(key.total[1], key.txPerPage, key.pageIndex))

\* the window the query function of a key asks the transport for
WindowOf(key) ==
    generateStartEndRange(key.total[1], key.txPerPage,
                          pg(key.total[1], key.txPerPage, key.pageIndex))
\* the digests the transport answers the range request of a key with
DigestsOf(key) ==
    digestsInRange(WindowOf(key).startGatewayTxSeqNumber, WindowOf(key).endGatewayTxSeqNumber)

\* the call of the fetch of query q of key that is on the wire
PendingCalls(q, key) ==
    IF q.stage = "range" THEN queryFn(key).calls
    ELSE IF q.stage = "hydrate" THEN <<hydrationCall(DigestsOf(key))>>
    ELSE <<>>

\* a query as the cache builds it: no data, status loading, not fetching
InitialQuery ==
    [status |-> "loading", data |-> Undefined, error |-> "", stage |-> "idle", rejection |-> ""]

\* a fetch starts on query q of key: the reducer's 'fetch' action and the query function's start
StartFetch(q, key) ==
    [status    |-> IF q.data = Undefined THEN "loading" ELSE q.status,
     data      |-> q.data,
     error     |-> IF q.data = Undefined THEN "" ELSE q.error,
     stage     |-> queryFn(key).stage,
     rejection |-> queryFn(key).rejection]

\* (C4) the result without keepPreviousData
Result_noPrevious(cache, key, prev) ==
    [status |-> cache[key].status, data |-> cache[key].data, isPreviousData |-> FALSE]

\* the observer's result for key: the query's own state, or the previous result kept
\* (keepPreviousData: true)
Result(cache, key, prev) ==
    LET q == cache[key]
    IN IF q.data = Undefined /\ q.status # "error" /\ prev.isSuccess
       THEN [status |-> "success", data |-> prev.data, isPreviousData |-> TRUE]
       ELSE [status |-> q.status, data |-> q.data, isPreviousData |-> FALSE]

\* a query without observer that holds no data and is not being fetched is to every later
\* step what no query is (a fetch starts it over), so the cache is kept without them
Collect(cache, current) ==
    [k \in {x \in DOMAIN cache :
               x = current \/ cache[x].stage # "idle" \/ cache[x].data # Undefined} |-> cache[k]]

\* the previous result as far as the observer can still show it: it is read only while
\* the query of the current key has no data and is not in error, and a query that has
\* got data or an error is not without them again before the key changes
NoPrevious == [isSuccess |-> FALSE, data |-> Undefined]
Kept(cache, key, prev) ==
    IF cache[key].data = Undefined /\ cache[key].status # "error" /\ prev.isSuccess
    THEN prev ELSE NoPrevious

\* (C17) a fetch on the first enabling only, none on a change of the key
shouldFetch_onEnableOnly(q, keyChanged, wasEnabled, enabled, stale) ==
    /\ enabled
    /\ ~wasEnabled
    /\ q.data = Undefined \/ stale
    /\ q.stage = "idle"

\* (C8) a fetch started although one of the query is under way
shouldFetch_doubled(q, keyChanged, wasEnabled, enabled, stale) ==
    /\ enabled
    /\ keyChanged \/ ~wasEnabled
    /\ q.data = Undefined \/ stale

\* whether the observer fetches query q on new options (enabled: countQuery.isFetched):
\* the query is enabled, new to the observer or newly enabled, stale, and a fetch of it
\* that is under way is shared, not doubled
shouldFetch(q, keyChanged, wasEnabled, enabled, stale) ==
    /\ enabled
    /\ keyChanged \/ ~wasEnabled
    /\ q.data = Undefined \/ stale
    /\ q.stage = "idle"

\* the render after a state change hands the observer the new key and options:
\* the query of the key is built, the previous result is kept on a key change, and the
\* query is fetched when shouldFetch says so
setOptions(oldKey, newKey, wasEnabled, enabled, stale) ==
    LET built == IF newKey \in DOMAIN queryCache THEN queryCache
                 ELSE [k \in DOMAIN queryCache \cup {newKey} |->
                          IF k = newKey THEN InitialQuery ELSE queryCache[k]]
        old   == Result(queryCache, oldKey, previousQueryResult)
        prev  == IF newKey # oldKey
                 THEN [isSuccess |-> old.status = "success", data |-> old.data]
                 ELSE previousQueryResult
        q     == built[newKey]
        fetch == shouldFetch(q, newKey # oldKey, wasEnabled, enabled, stale)
        cache == Collect(IF fetch THEN [built EXCEPT ![newKey] = StartFetch(q, newKey)]
                         ELSE built, newKey)
    IN [cache |-> cache,
        prev  |-> Kept(cache, newKey, prev),
        sent  |-> IF fetch THEN Sent(queryFn(newKey).calls, <<newKey>>) ELSE EmptyBag]

\* ------------------------------------------------------------ the render
CurrentKey == QueryKey(countQuery.data, txPerPage, pageIndex)
transactionQuery == Result(queryCache, CurrentKey, previousQueryResult)

\* (C10) the page query's banner tested first
View_pageErrorFirst ==
    IF transactionQuery.status = "error"
    THEN "There was an issue getting the latest transactions."
    ELSE IF countQuery.status = "error" THEN "No transactions found."
    ELSE IF transactionQuery.data # Undefined THEN "TableCard"
    ELSE "PlaceholderTable"

\* what LatestTxCard returns
View ==
    IF countQuery.status = "error" THEN "No transactions found."
    ELSE IF transactionQuery.status = "error"
         THEN "There was an issue getting the latest transactions."
    ELSE IF transactionQuery.data # Undefined THEN "TableCard"
    ELSE "PlaceholderTable"

\* the card itself is rendered (neither banner): the tabs, PlayPause, and the footer
CardRendered == countQuery.status # "error" /\ transactionQuery.status # "error"
\* PlayPause is on screen
PlayPauseRendered == CardRendered
\* the Pagination control (stats and page navigation) is on screen
PaginationRendered == CardRendered /\ paginationtype = "pagination"
\* the total-count stats are on screen (in Pagination or in TabFooter)
StatsRendered == CardRendered /\ paginationtype # "none"

\* -------------------------------------------------------------- Init
PageSizes == {MaxTxPerPage, NUMBER_OF_TX_PER_PAGE}
Counts == 0..MaxCount
PaginationTypes == {DEFAULT_PAGINATION_TYPE, "pagination", "none"}

NoCalc == [stage |-> "off", txCount |-> 0, txNum |-> 0, pageIndex |-> 0, pg |-> 0,
           start |-> 0, end |-> 0, again |-> 0, pages |-> <<>>,
           transactionDigests |-> <<>>, transactions |-> <<>>]

\* no OwnedObject component is mounted
NoOwnedObject ==
    /\ props = [id |-> "", byAddress |-> FALSE]
    /\ results = <<>>
    /\ isLoaded = FALSE
    /\ isFail = FALSE
    /\ loads = <<>>

\* the first render and mount: the count query starts fetching, the page query is disabled
Init ==
    /\ paginationtype \in PaginationTypes
    /\ paused = FALSE
    /\ txPerPage \in PageSizes
    /\ \E p \in SearchParamP : pageIndex = initialPageIndex(p)
    /\ countQuery = [status |-> "loading", data |-> Undefined, fetching |-> TRUE,
                     isFetched |-> FALSE]
    /\ queryCache = [k \in {QueryKey(Undefined, txPerPage, pageIndex)} |-> InitialQuery]
    /\ previousQueryResult = NoPrevious
    /\ wire = Sent(<<CountCall>>, <<>>)
    /\ calc = NoCalc
    /\ NoOwnedObject

\* the state update cq/perPage/index is committed and rendered; w is the wire as the
\* handler leaves it
Commit(cq, perPage, index, stale, w) ==
    LET r == setOptions(CurrentKey, QueryKey(cq.data, perPage, index),
                        countQuery.isFetched, cq.isFetched, stale)
    IN /\ Cardinality(DOMAIN r.cache) <= MaxCache
       /\ countQuery' = cq
       /\ txPerPage' = perPage
       /\ pageIndex' = index
       /\ queryCache' = r.cache
       /\ previousQueryResult' = r.prev
       /\ wire' = w (+) r.sent

\* whether a key change to a query holding data finds it stale is the client's staleTime
\* against the data's age: either
StaleChoice(total, perPage, index) ==
    LET k == QueryKey(total, perPage, index)
    IN IF k \in DOMAIN queryCache /\ queryCache[k].data # Undefined /\ k # CurrentKey
       THEN BOOLEAN ELSE {TRUE}

\* ------------------------------------------------------------ countQuery
\* a fetch of the count query starts: the reducer's 'fetch' action
countFetching(cq) ==
    [status    |-> IF cq.data = Undefined THEN "loading" ELSE cq.status,
     data      |-> cq.data,
     fetching  |-> TRUE,
     isFetched |-> cq.isFetched]

\* the count is fetched without cancelRefetch (the interval timer): a live fetch is shared
\* [query, sent]
executeFetch ==
    IF countQuery.fetching
    THEN [query |-> countQuery, sent |-> EmptyBag]
    ELSE [query |-> countFetching(countQuery), sent |-> Sent(<<CountCall>>, <<>>)]

\* countQuery.refetch(): a fetch asked for with cancelRefetch; a live fetch of a query
\* that holds data is cancelled (its call stays on the wire) and a new one started
\* [query, sent, cancels]
refetch ==
    IF countQuery.fetching /\ countQuery.data = Undefined
    THEN [query |-> countQuery, sent |-> EmptyBag, cancels |-> FALSE]
    ELSE [query |-> countFetching(countQuery), sent |-> Sent(<<CountCall>>, <<>>),
          cancels |-> countQuery.fetching]

\* getTotalTransactionNumber calls on the wire
CountOnWire == OnWire(wire, <<>>)
\* those of them whose fetch was cancelled
CountCancelled == CountOnWire - (IF countQuery.fetching THEN 1 ELSE 0)

\* (C6) the timer armed whether paused or not
refetchInterval_always == TRUE

\* refetchInterval: paused ? false : TRANSACTION_POLL_TIME -- whether the timer is armed
refetchInterval == ~paused

\* the timer fires
TimerTick ==
    /\ refetchInterval
    /\ countQuery' = executeFetch.query
    /\ wire' = wire (+) executeFetch.sent
    /\ UNCHANGED <<paginationtype, paused, txPerPage, pageIndex,
                   queryCache, previousQueryResult, calc, ownedVars>>

\* rpc.getTotalTransactionNumber() of the live fetch resolves with c
CountResolve(c) ==
    /\ countQuery.fetching
    /\ \E stale \in StaleChoice(Num(c), txPerPage, pageIndex) :
          Commit([status |-> "success", data |-> Num(c), fetching |-> FALSE,
                  isFetched |-> TRUE],
                 txPerPage, pageIndex, stale, Answered(wire, <<CountCall>>, <<>>))
    /\ UNCHANGED <<paginationtype, paused, calc, ownedVars>>

\* the live fetch fails and the retryer calls the query function again
CountRetry ==
    /\ countQuery.fetching
    /\ wire' = Answered(wire, <<CountCall>>, <<>>) (+) Sent(<<CountCall>>, <<>>)
    /\ UNCHANGED <<paginationtype, paused, txPerPage, pageIndex, countQuery,
                   queryCache, previousQueryResult, calc, ownedVars>>

\* the live fetch fails for good: status error, the data stays
CountReject ==
    /\ countQuery.fetching
    /\ Commit([status |-> "error", data |-> countQuery.data, fetching |-> FALSE,
               isFetched |-> TRUE],
              txPerPage, pageIndex, TRUE, Answered(wire, <<CountCall>>, <<>>))
    /\ UNCHANGED <<paginationtype, paused, calc, ownedVars>>

\* the call of a cancelled fetch comes back: its answer is dropped
CancelledCountReturns ==
    /\ CountCancelled > 0
    /\ wire' = Answered(wire, <<CountCall>>, <<>>)
    /\ UNCHANGED <<paginationtype, paused, txPerPage, pageIndex, countQuery,
                   queryCache, previousQueryResult, calc, ownedVars>>

\* ----------------------------------------------------------- page fetches
\* getDataOnTxDigests(rpc, digests): one record per digest, in the order given
getDataOnTxDigests(digests) == [i \in 1..Len(digests) |-> [digest |-> digests[i]]]

\* the data a fetch of key resolves with: the window's digests, reversed, hydrated
\* (for: the key the fetch was made for)
FetchedFor(key) ==
    [for |-> key, records |-> getDataOnTxDigests(reverse(DigestsOf(key)))]

\* (C3) the data written to the query the observer is on, whatever key was fetched
setData_toCurrent(key, data) ==
    [queryCache EXCEPT ![QueryKey(countQuery.data, txPerPage, pageIndex)] =
        [status |-> "success", data |-> <<data>>, error |-> "", stage |-> "idle",
         rejection |-> ""]]

\* the fetch of query key succeeded with data: written to the query of that key
setData(key, data) ==
    [queryCache EXCEPT ![key] =
        [status |-> "success", data |-> <<data>>, error |-> "", stage |-> "idle",
         rejection |-> ""]]

\* rpc.getTransactionDigestsInRangeDeprecated(start, end) resolves: the hydration call follows
PageRangeResolve(key) ==
    /\ queryCache[key].stage = "range"
    /\ queryCache' = [queryCache EXCEPT ![key].stage = "hydrate"]
    /\ wire' = Answered(wire, PendingCalls(queryCache[key], key), <<key>>)
                  (+) Sent(<<hydrationCall(DigestsOf(key))>>, <<key>>)
    /\ UNCHANGED <<paginationtype, paused, txPerPage, pageIndex, countQuery,
                   previousQueryResult, calc, ownedVars>>

\* getDataOnTxDigests resolves: the fetch of key succeeds
PageHydrateResolve(key) ==
    /\ queryCache[key].stage = "hydrate"
    /\ queryCache' = setData(key, FetchedFor(key))
    /\ previousQueryResult' = Kept(queryCache', CurrentKey, previousQueryResult)
    /\ wire' = Answered(wire, PendingCalls(queryCache[key], key), <<key>>)
    /\ UNCHANGED <<paginationtype, paused, txPerPage, pageIndex, countQuery, calc, ownedVars>>

\* the message a failed attempt of query q rejects with
Rejection(q) == IF q.stage = "thrown" THEN q.rejection ELSE "transport error"

\* an attempt of the fetch of key fails (a throw, or either transport call rejects)
\* and the retryer calls the query function again
PageRetry(key) ==
    /\ queryCache[key].stage \in {"thrown", "range", "hydrate"}
    /\ queryCache' = [queryCache EXCEPT ![key].stage = queryFn(key).stage,
                                        ![key].rejection = queryFn(key).rejection]
    /\ wire' = Answered(wire, PendingCalls(queryCache[key], key), <<key>>)
                  (+) Sent(queryFn(key).calls, <<key>>)
    /\ UNCHANGED <<paginationtype, paused, txPerPage, pageIndex, countQuery,
                   previousQueryResult, calc, ownedVars>>

\* the fetch of key fails for good: status error, the data stays
PageReject(key) ==
    /\ queryCache[key].stage \in {"thrown", "range", "hydrate"}
    /\ queryCache' = Collect([queryCache EXCEPT ![key] =
          [status |-> "error", data |-> @.data, error |-> Rejection(@), stage |-> "idle",
           rejection |-> ""]], CurrentKey)
    /\ previousQueryResult' = Kept(queryCache', CurrentKey, previousQueryResult)
    /\ wire' = Answered(wire, PendingCalls(queryCache[key], key), <<key>>)
    /\ UNCHANGED <<paginationtype, paused, txPerPage, pageIndex, countQuery, calc, ownedVars>>

\* cacheTime ran out for a query without observer that is not being fetched
GarbageCollect(key) ==
    /\ key # CurrentKey
    /\ queryCache[key].stage = "idle"
    /\ queryCache' = [k \in DOMAIN queryCache \ {key} |-> queryCache[k]]
    /\ UNCHANGED <<paginationtype, paused, txPerPage, pageIndex, countQuery,
                   previousQueryResult, wire, calc, ownedVars>>

\* ------------------------------------------------------------- handlers
\* handlePageChange(newPage), called by the Pagination control
handlePageChange(newPage) ==
    /\ PaginationRendered
    /\ \E stale \in StaleChoice(countQuery.data, txPerPage, newPage) :
          Commit(countQuery, txPerPage, newPage, stale, wire)
    /\ UNCHANGED <<paginationtype, paused, calc, ownedVars>>

\* updateItemsPerPage={setTxPerPage}, called by the Pagination control
setTxPerPage(perPage) ==
    /\ PaginationRendered
    /\ \E stale \in StaleChoice(countQuery.data, perPage, pageIndex) :
          Commit(countQuery, perPage, pageIndex, stale, wire)
    /\ UNCHANGED <<paginationtype, paused, calc, ownedVars>>

\* handlePauseChange, called by PlayPause
handlePauseChange ==
    /\ PlayPauseRendered
    /\ IF paused
       THEN /\ refetch.cancels => CountCancelled < MaxCancelled
            /\ Commit(refetch.query, txPerPage, pageIndex, TRUE, wire (+) refetch.sent)
       ELSE Commit(countQuery, txPerPage, pageIndex, TRUE, wire)
    /\ paused' = ~paused
    /\ UNCHANGED <<paginationtype, calc, ownedVars>>

Next ==
    \/ TimerTick
    \/ \E c \in Counts : CountResolve(c)
    \/ CountRetry
    \/ CountReject
    \/ CancelledCountReturns
    \/ \E key \in DOMAIN queryCache : PageRangeResolve(key)
    \/ \E key \in DOMAIN queryCache : PageHydrateResolve(key)
    \/ \E key \in DOMAIN queryCache : PageRetry(key)
    \/ \E key \in DOMAIN queryCache : PageReject(key)
    \/ \E key \in DOMAIN queryCache : GarbageCollect(key)
    \/ \E newPage \in 1..MaxPage : handlePageChange(newPage)
    \/ \E perPage \in PageSizes : setTxPerPage(perPage)
    \/ handlePauseChange

Spec == Init /\ [][Next]_vars

\* ------------------------------------------- the window calculation alone
\* the page index clamped and the window computed, for every count, page size and page
\* index of the bounds
CalcPages == (0 - 1)..MaxCalcPage
CalcCounts == 0..MaxCalcCount \cup {ScenarioCount}
CalcSizes == 1..MaxCalcSize \cup {NUMBER_OF_TX_PER_PAGE}

CalcInit ==
    /\ paginationtype = DEFAULT_PAGINATION_TYPE
    /\ paused = FALSE
    /\ txPerPage = NUMBER_OF_TX_PER_PAGE
    /\ pageIndex = 1
    /\ countQuery = [status |-> "loading", data |-> Undefined, fetching |-> TRUE,
                     isFetched |-> FALSE]
    /\ queryCache = [k \in {QueryKey(Undefined, txPerPage, pageIndex)} |-> InitialQuery]
    /\ previousQueryResult = NoPrevious
    /\ wire = Sent(<<CountCall>>, <<>>)
    /\ \E c \in CalcCounts, n \in CalcSizes, i \in CalcPages :
          calc = [NoCalc EXCEPT !.stage = "input", !.txCount = c, !.txNum = n,
                                !.pageIndex = i]
    /\ NoOwnedObject

\* const pg = pageIndex > maxTxPage ? maxTxPage : pageIndex
CalcClamp ==
    /\ calc.stage = "input"
    /\ calc' = [calc EXCEPT !.stage = "clamped",
                            !.pg = pg(calc.txCount, calc.txNum, calc.pageIndex)]
    /\ UNCHANGED <<paginationtype, paused, txPerPage, pageIndex, countQuery, queryCache,
                   previousQueryResult, wire, ownedVars>>

\* generateStartEndRange(totalTx, txNum, pg)
CalcWindow ==
    /\ calc.stage = "clamped"
    /\ LET r == generateStartEndRange(calc.txCount, calc.txNum, calc.pg)
       IN calc' = [calc EXCEPT !.stage = "window",
                               !.start = r.startGatewayTxSeqNumber,
                               !.end = r.endGatewayTxSeqNumber]
    /\ UNCHANGED <<paginationtype, paused, txPerPage, pageIndex, countQuery, queryCache,
                   previousQueryResult, wire, ownedVars>>

\* the clamp applied to its own result
CalcClampAgain ==
    /\ calc.stage = "clamped"
    /\ calc' = [calc EXCEPT !.stage = "clamped again",
                            !.again = pg(calc.txCount, calc.txNum, calc.pg)]
    /\ UNCHANGED <<paginationtype, paused, txPerPage, pageIndex, countQuery, queryCache,
                   previousQueryResult, wire, ownedVars>>

\* the windows of the pages 1 .. maxTxPage, each clamped and computed as the query
\* function does
CalcPageWindows ==
    /\ calc.stage = "window"
    /\ calc.txCount > 0
    /\ calc' = [calc EXCEPT !.stage = "pages",
                   !.pages = [k \in 1..maxTxPage(calc.txCount, calc.txNum) |->
                                 generateStartEndRange(calc.txCount, calc.txNum,
                                     pg(calc.txCount, calc.txNum, k))]]
    /\ UNCHANGED <<paginationtype, paused, txPerPage, pageIndex, countQuery, queryCache,
                   previousQueryResult, wire, ownedVars>>

\* await rpc.getTransactionDigestsInRangeDeprecated(start, end) resolves with the
\* window's digests, ascending
CalcRange ==
    /\ calc.stage = "window"
    /\ calc.txCount > 0
    /\ calc.end >= 0
    /\ calc' = [calc EXCEPT !.stage = "digests",
                            !.transactionDigests = digestsInRange(calc.start, calc.end)]
    /\ UNCHANGED <<paginationtype, paused, txPerPage, pageIndex, countQuery, queryCache,
                   previousQueryResult, wire, ownedVars>>

\* await getDataOnTxDigests(rpc, [...transactionDigests].reverse()) resolves: what
\* getRecentTransactions returns, and what the transport's array holds then
CalcHydrate ==
    /\ calc.stage = "digests"
    /\ LET r == spreadReverse(calc.transactionDigests)
       IN calc' = [calc EXCEPT !.stage = "hydrated",
                               !.transactionDigests = r.array,
                               !.transactions = getDataOnTxDigests(r.value)]
    /\ UNCHANGED <<paginationtype, paused, txPerPage, pageIndex, countQuery, queryCache,
                   previousQueryResult, wire, ownedVars>>

CalcNext ==
    \/ CalcClamp
    \/ CalcClampAgain
    \/ CalcWindow
    \/ CalcPageWindows
    \/ CalcRange
    \/ CalcHydrate

CalcSpec == CalcInit /\ [][CalcNext]_vars

\* ============================= the poll while Running, the transport answering
\* the card with the default pagination type and page size and no ?p= in the URL: no
\* page navigation
LiveInit ==
    /\ Init
    /\ paginationtype = DEFAULT_PAGINATION_TYPE
    /\ txPerPage = NUMBER_OF_TX_PER_PAGE
    /\ pageIndex = initialPageIndex(Undefined)

\* the query function of key threw before any request ('No transactions found') and the
\* query settles in error
QueryFnThrew(key) ==
    /\ queryCache[key].stage = "thrown"
    /\ PageReject(key)

\* the transport answers the request the fetch of the current key waits for
CurrentRangeResolve == PageRangeResolve(CurrentKey)
CurrentHydrateResolve == PageHydrateResolve(CurrentKey)
CurrentQueryFnThrew == QueryFnThrew(CurrentKey)
SomeCountResolve == \E c \in Counts : CountResolve(c)

\* the scheduler stays Running (no pause) and no transport call fails
LiveNext ==
    \/ TimerTick
    \/ \E c \in Counts : CountResolve(c)
    \/ \E key \in DOMAIN queryCache : PageRangeResolve(key)
    \/ \E key \in DOMAIN queryCache : PageHydrateResolve(key)
    \/ \E key \in DOMAIN queryCache : QueryFnThrew(key)
    \/ \E key \in DOMAIN queryCache : GarbageCollect(key)

\* the timer keeps firing and every request the count query or the current page query
\* waits for is answered
LiveSpec ==
    /\ LiveInit
    /\ [][LiveNext]_vars
    /\ WF_vars(TimerTick)
    /\ WF_vars(SomeCountResolve)
    /\ WF_vars(CurrentRangeResolve)
    /\ WF_vars(CurrentHydrateResolve)
    /\ WF_vars(CurrentQueryFnThrew)

\* ================================================== OwnedObject (loader)
\* const DATATYPE_DEFAULT
DATATYPE_DEFAULT == <<[id |-> "", Type |-> "", _isCoin |-> FALSE]>>

\* the values of the id prop, and the objects the transport knows under each
OwnedIds == {"0xa", "0xb"}
ObjectsOf(id) ==
    IF id = "0xa" THEN <<"0xa1", "0xa2", "0xa3">> ELSE <<"0xb1", "0xb2", "0xb3">>
AllProps == [id : OwnedIds, byAddress : BOOLEAN]

\* ---- the transport's answers
\* a SuiObjectResponse of an object that exists, of one that does not, and of an object
\* that exists with details the record helpers cannot read
ObjectExists(o) ==
    [status |-> "Exists", details |-> [objectId |-> o, type |-> "0x2::coin::Coin<0x2::sui::SUI>"]]
ObjectNotExists(o) == [status |-> "NotExists", details |-> [objectId |-> o]]
ObjectUnreadable(o) == [status |-> "Exists", details |-> [objectId |-> o, unreadable |-> TRUE]]

\* what the listing request of (id, byAddress) may resolve with: a page of object
\* responses (getOwnedObjects) or of dynamic fields (getDynamicFields) with the first
\* objects of the id, at most MaxObjects, in either order, or a page without data
ListingAnswers(id, byAddress) ==
    LET entry(o) == IF byAddress THEN ObjectExists(o) ELSE [objectId |-> o]
        page(n) == [i \in 1..n |-> entry(ObjectsOf(id)[i])]
    IN {[data |-> page(n)] : n \in 0..MaxObjects}
       \cup {[data |-> reverse(page(n))] : n \in 0..MaxObjects}
       \cup {[nextCursor |-> ""]}

\* what multiGetObjects({ ids }) may resolve with: one response per id, in the order of ids
RECURSIVE MultiGetAnswers(_)
MultiGetAnswers(ids) ==
    IF ids = <<>> THEN {<<>>}
    ELSE {<<first>> \o rest :
             first \in {ObjectExists(Head(ids)), ObjectNotExists(Head(ids)),
                        ObjectUnreadable(Head(ids))},
             rest \in MultiGetAnswers(Tail(ids))}

\* ---- the calls
\* (C19) the two listing methods taken for each other
ListingCall_swapped(id, byAddress) ==
    IF byAddress THEN Call("getDynamicFields", [parentId |-> id])
    ELSE Call("getOwnedObjects", [owner |-> id])

\* byAddress ? rpc.getOwnedObjects({ owner: id }) : rpc.getDynamicFields({ parentId: id })
ListingCall(id, byAddress) ==
    IF byAddress THEN Call("getOwnedObjects", [owner |-> id])
    ELSE Call("getDynamicFields", [parentId |-> id])

\* rpc.multiGetObjects({ ids, options })
MultiGetCall(ids) ==
    Call("multiGetObjects",
         [ids |-> ids,
          options |-> [showType |-> TRUE, showContent |-> TRUE, showDisplay |-> TRUE]])

\* ---- the callbacks' computations
\* is(objects, PaginatedObjectsResponse): a structural test
isPaginatedObjectsResponse(objects) ==
    /\ "data" \in DOMAIN objects
    /\ \A i \in 1..Len(objects.data) : {"status", "details"} \subseteq DOMAIN objects.data[i]

\* getObjectId(resp)
getObjectId(resp) ==
    IF "objectId" \in DOMAIN resp THEN resp.objectId ELSE resp.details.objectId

\* the ids of lines 50-55; objects.data.map throws where objects has no data
extractIds(objects) ==
    IF isPaginatedObjectsResponse(objects)
    THEN [thrown |-> FALSE,
          ids |-> [i \in 1..Len(objects.data) |-> getObjectId(objects.data[i])]]
    ELSE IF "data" \in DOMAIN objects
    THEN [thrown |-> FALSE,
          ids |-> [i \in 1..Len(objects.data) |-> objects.data[i].objectId]]
    ELSE [thrown |-> TRUE, ids |-> <<>>]

\* (C15) every response kept
existing_all(res) == res

\* results.filter(({ status }) => status === 'Exists')
existing(res) == SelectSeq(res, LAMBDA resp : resp.status = "Exists")

\* the record of lines 70-87 (display, balance and name follow the details as Type does)
record(resp) ==
    [id |-> getObjectId(resp),
     Type |-> IF "type" \in DOMAIN resp.details THEN resp.details.type ELSE "",
     _isCoin |-> "type" \in DOMAIN resp.details]

\* the helpers of lines 70-87 throw on details they cannot read
unreadable(resp) == "unreadable" \in DOMAIN resp.details

\* (C16) a response whose record cannot be derived is left out and the rest is shown
derived_skipsUnreadable(res) ==
    LET kept == SelectSeq(existing(res), LAMBDA resp : ~unreadable(resp))
    IN [thrown |-> FALSE, results |-> [i \in 1..Len(kept) |-> record(kept[i])]]

\* results.filter(...).map(...): the records, or the throw of a helper
derived(res) ==
    LET kept == existing(res)
    IN IF \E i \in 1..Len(kept) : unreadable(kept[i])
       THEN [thrown |-> TRUE, results |-> <<>>]
       ELSE [thrown |-> FALSE, results |-> [i \in 1..Len(kept) |-> record(kept[i])]]

\* ---- the render
\* what OwnedObject returns
OwnedObjectRender ==
    IF isFail THEN "NoOwnedObjects"
    ELSE IF isLoaded THEN "OwnedObjectView"
    ELSE "loading..."

\* ---- the effect and its promise chain
\* a run of the effect for props p: the listing request is issued
\* (stage: the await the chain is at or the value it resolved with, not yet handled)
LoadOf(p) ==
    [id |-> p.id, byAddress |-> p.byAddress, stage |-> "listing",
     calls |-> <<ListingCall(p.id, p.byAddress)>>, settled |-> <<>>]

Remove(seq, i) == SubSeq(seq, 1, i - 1) \o SubSeq(seq, i + 1, Len(seq))

\* no promise has resolved with its callback still to run: callbacks run as microtasks,
\* before any other event is handled
NoCallbackPending == \A i \in 1..Len(loads) : loads[i].stage \in {"listing", "multiGet"}

\* the feed card at its mount, and no window calculation
FeedAside ==
    /\ paginationtype = DEFAULT_PAGINATION_TYPE
    /\ paused = FALSE
    /\ txPerPage = NUMBER_OF_TX_PER_PAGE
    /\ pageIndex = 1
    /\ countQuery = [status |-> "loading", data |-> Undefined, fetching |-> TRUE,
                     isFetched |-> FALSE]
    /\ queryCache = [k \in {QueryKey(Undefined, txPerPage, pageIndex)} |-> InitialQuery]
    /\ previousQueryResult = NoPrevious
    /\ wire = Sent(<<CountCall>>, <<>>)
    /\ calc = NoCalc

feedVars == <<paginationtype, paused, txPerPage, pageIndex, countQuery, queryCache,
              previousQueryResult, wire, calc>>

\* the first render and the first run of the effect
OwnedInit ==
    /\ FeedAside
    /\ props \in AllProps
    /\ results = DATATYPE_DEFAULT
    /\ isLoaded = FALSE
    /\ isFail = FALSE
    /\ loads = <<LoadOf(props)>>

\* the parent renders OwnedObject with other props: the effect runs again (lines 42-47)
useEffect(p) ==
    /\ NoCallbackPending
    /\ p # props
    /\ Len(loads) < MaxLoads
    /\ props' = p
    /\ isFail' = FALSE
    /\ isLoaded' = FALSE
    /\ loads' = Append(loads, LoadOf(p))
    /\ UNCHANGED <<results, feedVars>>

\* the listing request of load i resolves with objects
ListingResolves(i, objects) ==
    /\ NoCallbackPending
    /\ loads[i].stage = "listing"
    /\ loads' = [loads EXCEPT ![i].stage = "listed", ![i].settled = objects]
    /\ UNCHANGED <<props, results, isLoaded, isFail, feedVars>>

\* req.then((objects) => ...) of load i: the ids, and the multiGetObjects call; a throw
\* goes to the catch
thenObjects(i) ==
    /\ loads[i].stage = "listed"
    /\ LET r == extractIds(loads[i].settled)
       IN IF r.thrown
          THEN /\ isFail' = TRUE
               /\ loads' = Remove(loads, i)
          ELSE /\ isFail' = isFail
               /\ loads' = [loads EXCEPT ![i].stage = "multiGet",
                                         ![i].calls = Append(@, MultiGetCall(r.ids)),
                                         ![i].settled = <<>>]
    /\ UNCHANGED <<props, results, isLoaded, feedVars>>

\* multiGetObjects of load i resolves with res
MultiGetResolves(i, res) ==
    /\ NoCallbackPending
    /\ loads[i].stage = "multiGet"
    /\ loads' = [loads EXCEPT ![i].stage = "got", ![i].settled = res]
    /\ UNCHANGED <<props, results, isLoaded, isFail, feedVars>>

\* .then((results) => ...) of load i: setResults and setIsLoaded(true); a throw goes to
\* the catch
thenResults(i) ==
    /\ loads[i].stage = "got"
    /\ LET r == derived(loads[i].settled)
       IN IF r.thrown
          THEN /\ isFail' = TRUE
               /\ UNCHANGED <<results, isLoaded>>
          ELSE /\ results' = r.results
               /\ isLoaded' = TRUE
               /\ isFail' = isFail
    /\ loads' = Remove(loads, i)
    /\ UNCHANGED <<props, feedVars>>

\* the request load i waits for rejects: .catch(() => setIsFail(true))
RequestRejects(i) ==
    /\ NoCallbackPending
    /\ loads[i].stage \in {"listing", "multiGet"}
    /\ isFail' = TRUE
    /\ loads' = Remove(loads, i)
    /\ UNCHANGED <<props, results, isLoaded, feedVars>>

OwnedNext ==
    \/ \E p \in AllProps : useEffect(p)
    \/ \E i \in 1..Len(loads) :
          \E objects \in ListingAnswers(loads[i].id, loads[i].byAddress) :
             ListingResolves(i, objects)
    \/ \E i \in 1..Len(loads) : thenObjects(i)
    \/ \E i \in 1..Len(loads) :
          \E res \in MultiGetAnswers(IF loads[i].stage = "multiGet"
                                     THEN loads[i].calls[2].args.ids ELSE <<>>) :
             MultiGetResolves(i, res)
    \/ \E i \in 1..Len(loads) : thenResults(i)
    \/ \E i \in 1..Len(loads) : RequestRejects(i)

OwnedSpec == OwnedInit /\ [][OwnedNext]_vars

\* ================================================================ claims

\* C1: for every totalCount >= 0, pageSize > 0 and requested pageIndex >= 1, the window
\* generateStartEndRange computes from the clamped page index satisfies
\* 0 <= start <= end <= totalCount.
C1_WindowWithinCount ==
    (calc.stage = "window" /\ calc.pageIndex >= 1)
        => (0 <= calc.start /\ calc.start <= calc.end /\ calc.end <= calc.txCount)

\* a window computed for a requested page beyond the last one, which the clamp brought back
C1_Witness ==
    /\ calc.stage = "window"
    /\ calc.pageIndex > calc.pg
    /\ calc.pg >= 2
    /\ calc.start < calc.end

\* C2: whatever poll ticks, page changes, page-size changes and pause/resume came before,
\* no page fetch that runs with a count > 0 fails with 'Invalid transaction number':
\* the window's end is never negative.
C2_NoInvalidTransactionNumber ==
    \A key \in DOMAIN queryCache :
        ~Falsy(key.total) =>
            /\ queryCache[key].rejection # "Invalid transaction number"
            /\ queryCache[key].error # "Invalid transaction number"
            /\ WindowOf(key).endGatewayTxSeqNumber >= 0

\* after a pause and with the small page size chosen, a fetch runs for a page index
\* beyond the last page
C2_Witness ==
    /\ paused
    /\ txPerPage = MaxTxPerPage
    /\ ~Falsy(countQuery.data)
    /\ pageIndex > maxTxPage(countQuery.data[1], txPerPage)
    /\ queryCache[CurrentKey].stage = "range"

\* C3: last request wins: data is only ever written to the query of the key it was
\* fetched for, so the result shown as current (not previous data) is the one fetched for
\* the current key, and a result arriving for a key that is no longer current is never
\* the current visible data.
C3_LastRequestWins ==
    /\ \A key \in DOMAIN queryCache :
          queryCache[key].data # Undefined => queryCache[key].data = <<FetchedFor(key)>>
    /\ (transactionQuery.data # Undefined /\ ~transactionQuery.isPreviousData)
          => transactionQuery.data[1].for = CurrentKey

\* the fetch of the current key is on the wire, nothing is shown for it yet, and the
\* result of another key's fetch sits in the cache
C3_Witness ==
    /\ queryCache[CurrentKey].stage \in {"range", "hydrate"}
    /\ transactionQuery.data = Undefined
    /\ \E key \in DOMAIN queryCache : key # CurrentKey /\ queryCache[key].data # Undefined

\* a page fetch succeeds in this step
PageFetchSucceeds ==
    \E key \in DOMAIN queryCache :
        /\ queryCache[key].stage = "hydrate"
        /\ key \in DOMAIN queryCache'
        /\ queryCache'[key].stage = "idle"
        /\ queryCache'[key].status = "success"

\* C4 as claimed: once a page fetch has succeeded for any key, the feed does not show
\* the empty placeholder table.
C4_AsClaimed == [][PageFetchSucceeds => View' # "PlaceholderTable"]_vars

\* C4 as amended: once the feed shows the records of a page fetch, it does not show the
\* placeholder again while later keys are fetched: each step from the table leads to the
\* table or to an error banner, and on a change to a key without data of its own the
\* records shown stay, flagged as previous data.
C4_StaleWhileRevalidate ==
    [][View = "TableCard" =>
          /\ View' # "PlaceholderTable"
          /\ (View' = "TableCard" /\ CurrentKey' # CurrentKey
                 /\ queryCache'[CurrentKey'].data = Undefined)
                => (transactionQuery'.isPreviousData
                      /\ transactionQuery'.data = transactionQuery.data)]_vars

\* records of an earlier key are shown as previous data while the current key is fetched
C4_Witness ==
    /\ View = "TableCard"
    /\ transactionQuery.isPreviousData
    /\ transactionQuery.data[1].for # CurrentKey
    /\ queryCache[CurrentKey].stage \in {"range", "hydrate"}

\* C5 as claimed: a resume leaves exactly one count fetch on the wire: it starts one if
\* none is in flight and issues no second, overlapping one if one is.
C5_AsClaimed == [][(paused /\ ~paused') => CountOnWire' = 1]_vars

\* a count fetch starts in this step: a call is added to the wire, or the query goes
\* from idle to fetching
CountFetchStarts ==
    \/ CountOnWire' > CountOnWire
    \/ ~countQuery.fetching /\ countQuery'.fetching

C7_AsClaimed ==
    (countQuery.status = "success" /\ countQuery.data = Num(0)
        /\ queryCache[CurrentKey].stage = "idle")
        => View = "No transactions found."

\* the key the claim names: the count, the page size and the effective (clamped) page
EffectiveKey(key) ==
    [total |-> key.total, txPerPage |-> key.txPerPage,
     effectivePage |-> pg(key.total[1], key.txPerPage, key.pageIndex)]

\* C8 as claimed: page requests with the same count and page size whose page indices
\* clamp to the same effective page share one fetch: no two of them are in flight.
C8_AsClaimed ==
    \A k1, k2 \in DOMAIN queryCache :
        (/\ ~Falsy(k1.total) /\ ~Falsy(k2.total)
         /\ queryCache[k1].stage \in {"range", "hydrate"}
         /\ queryCache[k2].stage \in {"range", "hydrate"}
         /\ EffectiveKey(k1) = EffectiveKey(k2))
            => k1 = k2

\* C8 as amended: the cache is keyed by (count, page size, requested page index): every
\* call on the wire for a page query is the one call of the live fetch of that key, so
\* a second request for a key whose fetch is in flight issues no further call.
C8_OneFetchPerKey ==
    /\ \A key \in DOMAIN queryCache :
          /\ OnWire(wire, <<key>>) = Len(PendingCalls(queryCache[key], key))
          /\ OnWire(wire, <<key>>) <= 1
    /\ \A c \in BagToSet(wire) : c.for # <<>> => c.for[1] \in DOMAIN queryCache

\* two keys with the same count and page size are in flight, the current one asking for
\* a page index beyond the last page
C8_Witness ==
    \E key \in DOMAIN queryCache :
        /\ key # CurrentKey
        /\ ~Falsy(key.total)
        /\ key.total = CurrentKey.total
        /\ key.txPerPage = CurrentKey.txPerPage
        /\ EffectiveKey(key) = EffectiveKey(CurrentKey)
        /\ OnWire(wire, <<key>>) = 1
        /\ OnWire(wire, <<CurrentKey>>) = 1

\* C9 as claimed: with the count fetched and the page query failed on a transport error,
\* the page-error banner is shown and the count/pagination chrome is still presented.
C9_AsClaimed ==
    (countQuery.status = "success" /\ queryCache[CurrentKey].status = "error"
        /\ queryCache[CurrentKey].error = "transport error")
        => /\ View = "There was an issue getting the latest transactions."
           /\ paginationtype = "pagination" => PaginationRendered
           /\ paginationtype # "none" => StatsRendered

\* the count fetch fails for good in this step
CountFetchFails ==
    countQuery.fetching /\ ~countQuery'.fetching /\ countQuery'.status = "error"

\* C10: when the count query has failed, the view is the "No transactions found." error
\* whatever the page query's state, and the failing step puts no digest-range request on
\* the wire.
C10_CountErrorView ==
    [][/\ countQuery'.status = "error" => View' = "No transactions found."
       /\ CountFetchFails => wire' = Answered(wire, <<CountCall>>, <<>>)]_vars

\* the count query failed while the page query holds data fetched earlier
C10_Witness ==
    /\ countQuery.status = "error"
    /\ ~countQuery.fetching
    /\ queryCache[CurrentKey].status = "success"
    /\ queryCache[CurrentKey].data # Undefined

\* C11: reversal law: with the digests d1..dn the transport returned for the window,
\* ascending, getRecentTransactions returns n records, the i-th hydrated from
\* d(n+1-i), latest first, and the transport's sequence is as it was returned.
C11_ReversalLaw ==
    calc.stage = "hydrated" =>
        LET returned == digestsInRange(calc.start, calc.end)
            n == Len(returned)
        IN /\ Len(calc.transactions) = n
           /\ \A i \in 1..n : calc.transactions[i].digest = returned[n + 1 - i]
           /\ \A i \in 1..(n - 1) :
                 calc.transactions[i].digest > calc.transactions[i + 1].digest
           /\ calc.transactionDigests = returned

\* a window of three digests or more was fetched and hydrated, the latest digest first
C11_Witness ==
    /\ calc.stage = "hydrated"
    /\ Len(calc.transactions) >= 3
    /\ calc.transactions[1].digest = calc.end - 1
    /\ calc.transactionDigests[1] = calc.start

\* C13: the clamp is idempotent: for every requested page, count > 0 and page size > 0,
\* clamping the clamped page against the same count and size gives the clamped page.
C13_ClampIdempotent ==
    (calc.stage = "clamped again" /\ calc.txCount > 0 /\ calc.txNum > 0)
        => calc.again = calc.pg

\* a page well beyond the last one was clamped, and the result clamped again
C13_Witness ==
    /\ calc.stage = "clamped again"
    /\ calc.txCount > 0
    /\ calc.pageIndex >= calc.pg + 2
    /\ calc.pg >= 2

\* C14: for every count c > 0 and page size s > 0, with maxPage = ceil(c / s): page 1
\* has the window [max(c - s, 0), c); the windows of the pages 1 .. maxPage are
\* contiguous from c down to 0, so disjoint and covering [0, c); every page before
\* maxPage holds s indices; every requested page >= maxPage gets [0, c - s*(maxPage-1)).
C14_WindowsPartition ==
    (calc.stage = "pages" /\ calc.txCount > 0 /\ calc.txNum > 0) =>
        LET c == calc.txCount
            s == calc.txNum
            maxPage == Ceil(c, s)
            w == calc.pages
        IN /\ Len(w) = maxPage
           /\ w[1].startGatewayTxSeqNumber = Max(c - s, 0)
           /\ w[1].endGatewayTxSeqNumber = c
           /\ w[maxPage].startGatewayTxSeqNumber = 0
           /\ \A k \in 1..maxPage :
                 w[k].startGatewayTxSeqNumber < w[k].endGatewayTxSeqNumber
           /\ \A k \in 1..(maxPage - 1) :
                 /\ w[k].startGatewayTxSeqNumber = w[k + 1].endGatewayTxSeqNumber
                 /\ w[k].endGatewayTxSeqNumber - w[k].startGatewayTxSeqNumber = s
           /\ \A i \in 0..(c - 1) :
                 Cardinality({k \in 1..maxPage :
                                 /\ w[k].startGatewayTxSeqNumber <= i
                                 /\ i < w[k].endGatewayTxSeqNumber}) = 1
           /\ calc.pageIndex >= maxPage =>
                 (calc.start = 0 /\ calc.end = c - s * (maxPage - 1))

\* the scenario: 45 transactions in pages of 20, page 3 asked for: page 1 is [25, 45),
\* page 3 the partial window [0, 5)
C14_Witness ==
    /\ calc.stage = "pages"
    /\ calc.txCount = 45
    /\ calc.txNum = 20
    /\ calc.pageIndex = 3
    /\ Len(calc.pages) = 3
    /\ calc.pages[1] = [startGatewayTxSeqNumber |-> 25, endGatewayTxSeqNumber |-> 45]
    /\ calc.start = 0
    /\ calc.end = 5

\* C12 as claimed: the page index handed to the window computation lies in
\* [1, max(1, ceil(totalCount / pageSize))], whatever the query string or the navigation
\* set the page index to.
C12_AsClaimed ==
    \A key \in DOMAIN queryCache :
        (~Falsy(key.total) /\ queryCache[key].stage \in {"range", "hydrate"}) =>
            LET handed == pg(key.total[1], key.txPerPage, key.pageIndex)
            IN /\ 1 <= handed
               /\ handed <= Max(1, Ceil(key.total[1], key.txPerPage))

\* the calls on the wire w issued for the page query of key
WireFor(w, key) ==
    LET of == {c \in BagToSet(w) : c.for = <<key>>}
    IN [c \in of |-> w[c]]

\* the stage of the fetch of key in cache, "none" without a query of the key
StageIn(cache, key) == IF key \in DOMAIN cache THEN cache[key].stage ELSE "none"

\* C18: each run of getRecentTransactions for a page fetch has exactly one digest-range
\* request for [start, end) on the wire, then, only once that request has resolved,
\* exactly one hydration call that carries all the digests returned; when the range
\* request fails, no hydration call is made and the attempt fails without data written.
C18_RangeThenOneHydration ==
    [][\A key \in DOMAIN queryCache \cup DOMAIN queryCache' :
          ~Falsy(key.total) =>
             LET window == generateStartEndRange(key.total[1], key.txPerPage,
                               IF key.pageIndex > Ceil(key.total[1], key.txPerPage)
                               THEN Ceil(key.total[1], key.txPerPage) ELSE key.pageIndex)
                 start  == window.startGatewayTxSeqNumber
                 end    == window.endGatewayTxSeqNumber
                 latestFirst == [i \in 1..(end - start) |-> end - i]
                 was    == StageIn(queryCache, key)
                 is     == StageIn(queryCache', key)
             IN /\ is = "range" =>
                      WireFor(wire', key) = Sent(<<RangeCall(start, end)>>, <<key>>)
                /\ is = "hydrate" =>
                      /\ was \in {"range", "hydrate"}
                      /\ WireFor(wire', key) = Sent(<<HydrateCall(latestFirst)>>, <<key>>)
                /\ is \notin {"range", "hydrate"} => WireFor(wire', key) = EmptyBag
                /\ (was = "range" /\ is \notin {"range", "hydrate"}) =>
                      (key \in DOMAIN queryCache' =>
                          /\ queryCache'[key].status = "error"
                          /\ queryCache'[key].data = queryCache[key].data)]_vars

\* the range request of a window of two digests has resolved and the one hydration call
\* with both digests, latest first, is on the wire
C18_Witness ==
    \E key \in DOMAIN queryCache :
        /\ queryCache[key].stage = "hydrate"
        /\ Len(DigestsOf(key)) >= 2
        /\ WireFor(wire, key) = Sent(<<HydrateCall(reverse(DigestsOf(key)))>>, <<key>>)

\* load i settles in this step: its promise chain ends, by success or by the catch
Settles(i) == loads' = Remove(loads, i)

\* the responses of res with status Exists, by position
ExistsAt(res) == {k \in 1..Len(res) : res[k].status = "Exists"}

\* C15: existence filter: when a load's multiGet response is handled, the committed
\* results hold exactly one record for each response with status 'Exists', in the order
\* of the response, and none for any other; responses of objects that do not exist
\* never put the load into the fail state.
C15_ExistenceFilter ==
    [][\A i \in 1..Len(loads) :
          (loads[i].stage = "got" /\ Settles(i)) =>
             LET res == loads[i].settled
                 ex  == ExistsAt(res)
             IN (\A k \in ex : "unreadable" \notin DOMAIN res[k].details) =>
                   /\ Len(results') = Cardinality(ex)
                   /\ \A k \in ex :
                         results'[Cardinality({m \in ex : m <= k})].id
                            = res[k].details.objectId
                   /\ isLoaded'
                   /\ isFail' = isFail]_vars

\* a load is through whose multiGet response held the second object as existing and the
\* first one as not: one record, the second object's
C15_Witness ==
    /\ loads = <<>>
    /\ isLoaded
    /\ ~isFail
    /\ Len(results) = 1
    /\ results[1].id = ObjectsOf(props.id)[2]

\* load i fails in this step: its request rejects, the listing response has no data to
\* take ids from, or a record cannot be derived from a response
Fails(i) ==
    /\ Settles(i)
    /\ \/ loads[i].stage \in {"listing", "multiGet"}
       \/ loads[i].stage = "listed" /\ "data" \notin DOMAIN loads[i].settled
       \/ /\ loads[i].stage = "got"
          /\ \E k \in ExistsAt(loads[i].settled) :
                "unreadable" \in DOMAIN loads[i].settled[k].details

\* C16: an error at any step of a load (listing request, id extraction, multiGet,
\* deriving a record) puts the loader in the one fail state with nothing of that load's
\* results committed, and the loader stays in fail as long as the props do not change.
C16_FailsWhole ==
    [][/\ \A i \in 1..Len(loads) :
             Fails(i) => /\ isFail'
                         /\ OwnedObjectRender' = "NoOwnedObjects"
                         /\ results' = results
                         /\ isLoaded' = isLoaded
       /\ (isFail /\ props' = props) =>
             (isFail' /\ OwnedObjectRender' = "NoOwnedObjects")]_vars

\* the loader is in fail with results of an earlier load still held and nothing in flight
C16_Witness ==
    /\ isFail
    /\ OwnedObjectRender = "NoOwnedObjects"
    /\ loads = <<>>
    /\ results # DATATYPE_DEFAULT
    /\ Len(results) >= 1

\* the calls load l has issued are as C19 says for the stage it is at
CallsInOrder(l) ==
    /\ l.calls[1] = (IF l.byAddress THEN Call("getOwnedObjects", [owner |-> l.id])
                     ELSE Call("getDynamicFields", [parentId |-> l.id]))
    /\ l.stage \in {"listing", "listed"} => Len(l.calls) = 1
    /\ l.stage \in {"multiGet", "got"} =>
          (Len(l.calls) = 2 /\ l.calls[2].method = "multiGetObjects")

\* C19: each load issues exactly one listing request, getOwnedObjects(owner = id) when
\* byAddress and getDynamicFields(parentId = id) otherwise, then exactly one multiGet,
\* issued only when the listing request has resolved and carrying the ids of that
\* response in its order; a load whose listing request fails issues no multiGet.
C19_ListingThenMultiGet ==
    [][/\ \A i \in 1..Len(loads) : CallsInOrder(loads[i])
       /\ \A i \in 1..Len(loads') : CallsInOrder(loads'[i])
       /\ \A i \in 1..Len(loads) :
             /\ (Len(loads') = Len(loads) /\ Len(loads'[i].calls) > Len(loads[i].calls)) =>
                   /\ loads[i].stage = "listed"
                   /\ Len(loads'[i].calls[2].args.ids) = Len(loads[i].settled.data)
                   /\ \A k \in 1..Len(loads[i].settled.data) :
                         LET entry == loads[i].settled.data[k]
                         IN loads'[i].calls[2].args.ids[k] =
                               (IF loads[i].byAddress THEN entry.details.objectId
                                ELSE entry.objectId)
             /\ (loads[i].stage \in {"listing", "listed"} /\ Settles(i)) =>
                   Len(loads[i].calls) = 1]_vars

\* a load by parent id whose listing answered two dynamic fields, the second object
\* first, waits for its multiGet of those ids in that order
C19_Witness ==
    \E i \in 1..Len(loads) :
        /\ loads[i].stage = "multiGet"
        /\ ~loads[i].byAddress
        /\ loads[i].calls[1].method = "getDynamicFields"
        /\ loads[i].calls[2].args.ids
              = <<ObjectsOf(loads[i].id)[2], ObjectsOf(loads[i].id)[1]>>

\* C20 as claimed: a load that was superseded (the props are no longer those it was
\* started for) settles without touching what is shown: neither the results nor the
\* loaded flag nor the fail flag change.
C20_AsClaimed ==
    [][\A i \in 1..Len(loads) :
          (Settles(i) /\ [id |-> loads[i].id, byAddress |-> loads[i].byAddress] # props)
             => (results' = results /\ isLoaded' = isLoaded /\ isFail' = isFail)]_vars

\* the page shown is the one fetched for the current key, and not as previous data
ShownLatest ==
    /\ View = "TableCard"
    /\ ~transactionQuery.isPreviousData
    /\ transactionQuery.data = <<FetchedFor(CurrentKey)>>

\* C17 as claimed: with the scheduler Running and the transport answering, whatever
\* count the poll returned last, the page fetched for that count is eventually the one
\* displayed: a run in which, from some point on, a count is there and its page is not
\* displayed is one in which newer counts keep arriving.
C17_AsClaimed ==
    <>[](countQuery.data # Undefined /\ ~ShownLatest)
        => []<><<CurrentKey' # CurrentKey>>_vars

\* C17 as amended: a returned count that is new and > 0 leaves the page query of its key
\* holding data or being fetched, and for a count > 0 the page fetched for it is
\* eventually the one displayed: a run in which, from some point on, the count is > 0
\* and its page is not displayed is one in which newer counts keep arriving.
C17_PollReachesLatest ==
    /\ [][(countQuery'.data # countQuery.data /\ ~Falsy(countQuery'.data)) =>
             \/ queryCache'[CurrentKey'].data # Undefined
             \/ queryCache'[CurrentKey'].stage \in {"range", "hydrate"}]_vars
    /\ (<>[](~Falsy(countQuery.data) /\ ~ShownLatest)
           => []<><<CurrentKey' # CurrentKey>>_vars)

\* a newer count > 0 has arrived while the page of an earlier count is displayed: that
\* page stays as previous data and the fetch for the new count's key is under way
C17_Witness ==
    /\ ~paused
    /\ ~Falsy(countQuery.data)
    /\ transactionQuery.isPreviousData
    /\ transactionQuery.data[1].for.total # countQuery.data
    /\ queryCache[CurrentKey].stage = "hydrate"
====
